---- MODULE Spec2Model ----
(***************************************************************************)
(* Presence and location dissemination core of the tracking backend.       *)
(*                                                                         *)
(* Two servers live in the repository:                                     *)
(*   src/src/server.js     in-memory maps with an optional durable store   *)
(*                         (process.env.MONGODB_URI), events               *)
(*                         register-driver / location-update / disconnect  *)
(*   src/unnamed/part_001  durable store only, connection registry         *)
(*                         activeConnections, events registerDriver /      *)
(*                         sendLocation / syncLocations / disconnect and   *)
(*                         the periodic cleanup timer                      *)
(* Both are modelled over the same variables; Spec runs server.js and      *)
(* SpecLegacy runs part_001.                                               *)
(***************************************************************************)
EXTENDS Integers, Sequences, FiniteSets, Bags, TLC

VARIABLES
    mongoUri,       \* process.env.MONGODB_URI is set (durable mode)
    drivers,        \* server.js: let drivers = new Map(), in insertion order
    locations,      \* server.js: let locations = []
    sockDevice,     \* server.js: socket.deviceId of every socket
    activeConnections, \* part_001: Map socket.id -> {deviceId, driverName}
    DriverColl,     \* documents of the Driver collection, in insertion order
    LocationColl,   \* documents of the Location collection, in insertion order
    sockOpen,       \* the transport connection of a socket is still open
    tasks,          \* bag of the async handlers suspended at an await
    now,            \* Date.now() in ms
    locationEmits,  \* io.emit('location-update', ...) broadcasts, in emission order
    driversEmits,   \* io.emit('drivers-updated', ...): how many, and the last payload
    sockEmits,      \* socket.emit(...) events per socket, in emission order
    nEvents,        \* number of inbound socket events received so far
    sent,           \* the location payloads submitted so far, in order of submission
    nextSweep,      \* part_001: when the cleanup timer fires next
    lastActivity    \* part_001: per deviceId, when its last register or location event came in

vars == << mongoUri, drivers, locations, sockDevice, activeConnections,
           DriverColl, LocationColl, sockOpen, tasks, now, locationEmits,
           driversEmits, sockEmits, nEvents, sent, nextSweep,
           lastActivity >>

(***************************************************************************)
(* Bounds of the model and the inputs the clients choose from.             *)
(***************************************************************************)
MaxEvents == 4
MaxDurableEvents == 3
MaxMemoryEvents == 5
MaxCapEvents == 3
MaxLegacyEvents == 2
MaxSweeps == 1
MaxBatch == 2
MaxInflight == 2
MaxNow == 1
ClientSkew == 5

Sockets == {"s1", "s2"}
Devices == {"d1", "d2"}
Names == {"Alice"}
Coords == { <<90, -180>>, <<91, 0>>, <<0, -181>> }
LegacyCoords == { <<90, -180>>, <<91, 0>> }
None == "none"

(***************************************************************************)
(* Program constants.                                                      *)
(***************************************************************************)
HistoryCap == 100
LatMin == -90
LatMax == 90
LonMin == -180
LonMax == 180
FindLimit == 100
StaleMs == 5 * 60 * 1000
CleanupIntervalMs == 5 * 60 * 1000

NoTime == 0 - 1

(***************************************************************************)
(* Date conversions: new Date().toISOString() and new Date(isoString).     *)
(***************************************************************************)
ToISOString(ms) == << "iso", ms >>

ParseDate(s) == IF s[1] = "iso" THEN s[2] ELSE NoTime

(***************************************************************************)
(* Sequence helpers (Array.prototype.filter / findIndex / splice).         *)
(***************************************************************************)
\* s.filter(loc => loc.deviceId === deviceId)
FilterDevice(s, deviceId) == SelectSeq(s, LAMBDA loc : loc.deviceId = deviceId)

\* s.findIndex(loc => loc.deviceId === deviceId), counted from 1; 0 when there is none
FindIndexDevice(s, deviceId) ==
    IF \E i \in 1..Len(s) : s[i].deviceId = deviceId
    THEN CHOOSE i \in 1..Len(s) :
            s[i].deviceId = deviceId /\ \A j \in 1..(i - 1) : s[j].deviceId # deviceId
    ELSE 0

SpliceOne(s, i) ==
    IF i \in 1..Len(s)
    THEN [j \in 1..(Len(s) - 1) |-> IF j < i THEN s[j] ELSE s[j + 1]]
    ELSE s

(***************************************************************************)
(* Map operations on `drivers` (a sequence of [key, value] entries).       *)
(***************************************************************************)
MapHas(m, k) == \E i \in 1..Len(m) : m[i].key = k

MapGet(m, k) == m[CHOOSE i \in 1..Len(m) : m[i].key = k].value

MapSetAppend(m, k, v) == Append(m, [key |-> k, value |-> v])

MapSet(m, k, v) ==
    IF MapHas(m, k)
    THEN [i \in 1..Len(m) |-> IF m[i].key = k THEN [key |-> k, value |-> v] ELSE m[i]]
    ELSE Append(m, [key |-> k, value |-> v])

MapValues(m) == [i \in 1..Len(m) |-> m[i].value]

MapDelete(m, k) == SelectSeq(m, LAMBDA e : e.key # k)

(***************************************************************************)
(* Durable store: documents and the mongoose operations the code uses.     *)
(***************************************************************************)
Merge(doc, upd) ==
    [f \in (DOMAIN doc) \cup (DOMAIN upd) |-> IF f \in DOMAIN upd THEN upd[f] ELSE doc[f]]

HasDoc(coll, d) == \E i \in 1..Len(coll) : coll[i].deviceId = d

FirstDoc(coll, d) == CHOOSE i \in 1..Len(coll) :
                        coll[i].deviceId = d /\ \A j \in 1..(i - 1) : coll[j].deviceId # d

\* Model.findOneAndUpdate({deviceId}, update, {upsert})
FindOneAndUpdate(coll, d, upd, upsert, defaults) ==
    IF HasDoc(coll, d)
    THEN [i \in 1..Len(coll) |-> IF i = FirstDoc(coll, d) THEN Merge(coll[i], upd) ELSE coll[i]]
    ELSE IF upsert THEN Append(coll, Merge(Merge(defaults, [deviceId |-> d]), upd))
         ELSE coll

\* models/Driver.js: defaults of the schema
DriverDefaults == [isOnline |-> FALSE, lastSeen |-> now]

\* models/Location (part_000): required fields and min/max validators, run by save()
LocationValidate(doc) ==
    /\ doc.deviceId # None
    /\ doc.driverName # None
    /\ doc.latitude >= LatMin /\ doc.latitude <= LatMax
    /\ doc.longitude >= LonMin /\ doc.longitude <= LonMax

(***************************************************************************)
(* Inputs.                                                                 *)
(***************************************************************************)
\* a location-update payload; the client numbers its samples in `accuracy` and
\* stamps them with its own clock, which runs ClientSkew ahead of the server's
Payloads ==
    { [deviceId |-> d, driverName |-> n, latitude |-> c[1], longitude |-> c[2],
       accuracy |-> nEvents + 1, timestamp |-> ToISOString(now + ClientSkew)] :
         d \in Devices, n \in Names, c \in Coords }

\* handlers suspended at an await: one starts, moves on to its next await, ends
TaskStart(t) == tasks (+) SetToBag({t})

TaskEnd(t) == tasks (-) SetToBag({t})

\* inbound events the clients send under Spec: a handler of the durable mode
\* takes several steps, so that mode is given one event less
EventBudget == IF mongoUri THEN MaxDurableEvents ELSE MaxEvents

TaskMove(t, u) == (tasks (-) SetToBag({t})) (+) SetToBag({u})

InFlight == BagCardinality(tasks)

\* io.emit('drivers-updated', list)
EmitDrivers(list) == [count |-> driversEmits.count + 1, last |-> list]

(***************************************************************************)
(* server.js: socket.on('register-driver')                                 *)
(***************************************************************************)
\* lines 172-178
DriverData(s, d, n) ==
    [deviceId |-> d, driverName |-> n, isOnline |-> TRUE,
     lastSeen |-> ToISOString(now), socketId |-> s]

\* lines 195-201: drivers.set, socket.deviceId, io.emit('drivers-updated')
RegisterMemory(s, d, driverData) ==
    /\ drivers' = MapSet(drivers, d, driverData)
    /\ sockDevice' = [sockDevice EXCEPT ![s] = d]
    /\ driversEmits' = EmitDrivers(MapValues(drivers'))

RegisterDriver(s, d, n) ==
    /\ sockOpen[s]
    /\ nEvents' = nEvents + 1
    /\ IF mongoUri
       THEN /\ InFlight < MaxInflight
            /\ tasks' = TaskStart([kind |-> "register", pc |-> "upsert", sock |-> s,
                                   deviceId |-> d, driverName |-> n,
                                   lastSeen |-> now,
                                   driverData |-> DriverData(s, d, n)])
            /\ UNCHANGED << drivers, sockDevice, driversEmits >>
       ELSE /\ RegisterMemory(s, d, DriverData(s, d, n))
            /\ UNCHANGED tasks
    /\ UNCHANGED << mongoUri, nextSweep, lastActivity, locations, activeConnections,
                    DriverColl, LocationColl,
                    sockOpen, now, locationEmits, sockEmits, sent >>

\* lines 183-191: the awaited upsert is applied by the store, or rejects
RegisterUpsert(t, ok) ==
    /\ BagIn(t, tasks)
    /\ t.kind = "register" /\ t.pc = "upsert"
    /\ IF ok
       THEN /\ DriverColl' = FindOneAndUpdate(DriverColl, t.deviceId,
                                 [driverName |-> t.driverName, isOnline |-> TRUE,
                                  lastSeen |-> t.lastSeen], TRUE, DriverDefaults)
            /\ tasks' = TaskMove(t, [t EXCEPT !.pc = "mem"])
       ELSE /\ tasks' = TaskEnd(t)
            /\ UNCHANGED DriverColl
    /\ UNCHANGED << mongoUri, nextSweep, lastActivity, drivers, locations, sockDevice,
                    activeConnections,
                    LocationColl, sockOpen, now, locationEmits, driversEmits,
                    sockEmits, nEvents, sent >>

RegisterResume(t) ==
    /\ BagIn(t, tasks)
    /\ t.kind = "register" /\ t.pc = "mem"
    /\ RegisterMemory(t.sock, t.deviceId, t.driverData)
    /\ tasks' = TaskEnd(t)
    /\ UNCHANGED << mongoUri, nextSweep, lastActivity, locations, activeConnections,
                    DriverColl, LocationColl,
                    sockOpen, now, locationEmits, sockEmits, nEvents, sent >>

(***************************************************************************)
(* server.js: socket.on('location-update')                                 *)
(***************************************************************************)
\* lines 212-216: the payload with the server's time and isOnline: true
LocationObject(p) ==
    Merge(p, [timestamp |-> ToISOString(now), isOnline |-> TRUE])

\* lines 221-231: new Location({...})
LocationDoc(location) ==
    [deviceId |-> location.deviceId, driverName |-> location.driverName,
     latitude |-> location.latitude, longitude |-> location.longitude,
     accuracy |-> location.accuracy, timestamp |-> ParseDate(location.timestamp),
     isOnline |-> location.isOnline]

\* lines 245-252: locations.push(location) and the per-device cap
PushAndTrimNoEvict(locs, location, deviceId) == Append(locs, location)

PushAndTrimEvictHead(locs, location, deviceId) ==
    LET pushed == Append(locs, location)
    IN  IF Len(FilterDevice(pushed, deviceId)) > HistoryCap THEN Tail(pushed) ELSE pushed

PushAndTrim(locs, location, deviceId) ==
    LET pushed == Append(locs, location)
        deviceLocations == FilterDevice(pushed, deviceId)
    IN  IF Len(deviceLocations) > HistoryCap
        THEN SpliceOne(pushed, FindIndexDevice(pushed, deviceId))
        ELSE pushed

\* lines 255-260: touch the driver in memory
TouchDriver(drvs, deviceId) ==
    IF MapHas(drvs, deviceId)
    THEN MapSet(drvs, deviceId,
                Merge(MapGet(drvs, deviceId),
                      [lastSeen |-> ToISOString(now), isOnline |-> TRUE]))
    ELSE drvs

\* lines 245-265
LocationMemory(location, deviceId) ==
    /\ locations' = PushAndTrim(locations, location, deviceId)
    /\ drivers' = TouchDriver(drivers, deviceId)
    /\ locationEmits' = Append(locationEmits, location)

LocationUpdate(s, p) ==
    /\ sockOpen[s]
    /\ nEvents' = nEvents + 1
    /\ sent' = Append(sent, p)
    /\ IF mongoUri
       THEN /\ InFlight < MaxInflight
            /\ tasks' = TaskStart([kind |-> "location", pc |-> "save", sock |-> s,
                                   deviceId |-> p.deviceId, lastSeen |-> NoTime,
                                   location |-> LocationObject(p)])
            /\ UNCHANGED << drivers, locations, locationEmits >>
       ELSE /\ LocationMemory(LocationObject(p), p.deviceId)
            /\ UNCHANGED tasks
    /\ UNCHANGED << mongoUri, nextSweep, lastActivity, sockDevice, activeConnections,
                    DriverColl, LocationColl,
                    sockOpen, now, driversEmits, sockEmits >>

\* line 232: await newLocation.save() validates, then writes or rejects
LocationSave(t, ok) ==
    /\ BagIn(t, tasks)
    /\ t.kind = "location" /\ t.pc = "save"
    /\ IF ok /\ LocationValidate(LocationDoc(t.location))
       THEN /\ LocationColl' = Append(LocationColl, LocationDoc(t.location))
            /\ tasks' = TaskMove(t, [t EXCEPT !.pc = "touch", !.lastSeen = now])
       ELSE /\ tasks' = TaskEnd(t)
            /\ UNCHANGED LocationColl
    /\ UNCHANGED << mongoUri, nextSweep, lastActivity, drivers, locations, sockDevice,
                    activeConnections,
                    DriverColl, sockOpen, now, locationEmits, driversEmits,
                    sockEmits, nEvents, sent >>

\* lines 235-241: await Driver.findOneAndUpdate({deviceId}, {lastSeen, isOnline: true})
LocationTouch(t, ok) ==
    /\ BagIn(t, tasks)
    /\ t.kind = "location" /\ t.pc = "touch"
    /\ IF ok
       THEN /\ DriverColl' = FindOneAndUpdate(DriverColl, t.deviceId,
                                 [lastSeen |-> t.lastSeen, isOnline |-> TRUE], FALSE,
                                 DriverDefaults)
            /\ tasks' = TaskMove(t, [t EXCEPT !.pc = "mem"])
       ELSE /\ tasks' = TaskEnd(t)
            /\ UNCHANGED DriverColl
    /\ UNCHANGED << mongoUri, nextSweep, lastActivity, drivers, locations, sockDevice,
                    activeConnections,
                    LocationColl, sockOpen, now, locationEmits, driversEmits,
                    sockEmits, nEvents, sent >>

LocationResumeIfOpen(t) ==
    /\ BagIn(t, tasks)
    /\ t.kind = "location" /\ t.pc = "mem"
    /\ IF sockOpen[t.sock]
       THEN LocationMemory(t.location, t.deviceId)
       ELSE UNCHANGED << locations, drivers, locationEmits >>
    /\ tasks' = TaskEnd(t)
    /\ UNCHANGED << mongoUri, nextSweep, lastActivity, sockDevice, activeConnections,
                    DriverColl, LocationColl, sockOpen, now, driversEmits, sockEmits,
                    nEvents, sent >>

LocationResume(t) ==
    /\ BagIn(t, tasks)
    /\ t.kind = "location" /\ t.pc = "mem"
    /\ LocationMemory(t.location, t.deviceId)
    /\ tasks' = TaskEnd(t)
    /\ UNCHANGED << mongoUri, nextSweep, lastActivity, sockDevice, activeConnections,
                    DriverColl, LocationColl,
                    sockOpen, now, driversEmits, sockEmits, nEvents, sent >>

(***************************************************************************)
(* server.js: socket.on('disconnect')                                      *)
(***************************************************************************)
\* lines 289-297
DisconnectMemory(s) ==
    IF MapHas(drivers, sockDevice[s])
    THEN /\ drivers' = MapSet(drivers, sockDevice[s],
                              Merge(MapGet(drivers, sockDevice[s]),
                                    [isOnline |-> FALSE, lastSeen |-> ToISOString(now)]))
         /\ driversEmits' = EmitDrivers(MapValues(drivers'))
    ELSE UNCHANGED << drivers, driversEmits >>

Disconnect(s) ==
    /\ sockOpen[s]
    /\ nEvents' = nEvents + 1
    /\ sockOpen' = [sockOpen EXCEPT ![s] = FALSE]
    /\ IF sockDevice[s] = None
       THEN UNCHANGED << drivers, driversEmits, tasks >>
       ELSE IF mongoUri
            THEN /\ InFlight < MaxInflight
                 /\ tasks' = TaskStart([kind |-> "disconnect", pc |-> "update", sock |-> s,
                                        deviceId |-> sockDevice[s], lastSeen |-> now])
                 /\ UNCHANGED << drivers, driversEmits >>
            ELSE /\ DisconnectMemory(s)
                 /\ UNCHANGED tasks
    /\ UNCHANGED << mongoUri, nextSweep, lastActivity, locations, sockDevice,
                    activeConnections, DriverColl,
                    LocationColl, now, locationEmits, sockEmits, sent >>

\* lines 279-285: await Driver.findOneAndUpdate({deviceId}, {isOnline: false, lastSeen})
DisconnectUpdate(t, ok) ==
    /\ BagIn(t, tasks)
    /\ t.kind = "disconnect" /\ t.pc = "update"
    /\ IF ok
       THEN /\ DriverColl' = FindOneAndUpdate(DriverColl, t.deviceId,
                                 [isOnline |-> FALSE, lastSeen |-> t.lastSeen], FALSE,
                                 DriverDefaults)
            /\ tasks' = TaskMove(t, [t EXCEPT !.pc = "mem"])
       ELSE /\ tasks' = TaskEnd(t)
            /\ UNCHANGED DriverColl
    /\ UNCHANGED << mongoUri, nextSweep, lastActivity, drivers, locations, sockDevice,
                    activeConnections,
                    LocationColl, sockOpen, now, locationEmits, driversEmits,
                    sockEmits, nEvents, sent >>

DisconnectResume(t) ==
    /\ BagIn(t, tasks)
    /\ t.kind = "disconnect" /\ t.pc = "mem"
    /\ DisconnectMemory(t.sock)
    /\ tasks' = TaskEnd(t)
    /\ UNCHANGED << mongoUri, nextSweep, lastActivity, locations, sockDevice,
                    activeConnections, DriverColl,
                    LocationColl, sockOpen, now, locationEmits, sockEmits, nEvents, sent >>

(***************************************************************************)
(* server.js: the query surface.                                           *)
(***************************************************************************)
Min(a, b) == IF a < b THEN a ELSE b

Take(s, n) == SubSeq(s, 1, Min(n, Len(s)))

\* .sort({key: -1}): documents by descending key, ties in insertion order
RECURSIVE InsertDesc(_, _, _)
InsertDesc(x, s, key) ==
    IF s = << >> THEN << x >>
    ELSE IF Head(s)[key] >= x[key] THEN << Head(s) >> \o InsertDesc(x, Tail(s), key)
         ELSE << x >> \o s

RECURSIVE SortDescFrom(_, _, _)
SortDescFrom(s, acc, key) ==
    IF s = << >> THEN acc ELSE SortDescFrom(Tail(s), InsertDesc(Head(s), acc, key), key)

SortDesc(s, key) == SortDescFrom(s, << >>, key)

\* the deviceIds of a sequence of records, each once, in order of first appearance
RECURSIVE DistinctIds(_, _)
DistinctIds(s, seen) ==
    IF s = << >> THEN << >>
    ELSE IF Head(s).deviceId \in seen THEN DistinctIds(Tail(s), seen)
         ELSE << Head(s).deviceId >> \o DistinctIds(Tail(s), seen \cup {Head(s).deviceId})

\* GET /api/drivers, lines 83-96
ApiDrivers ==
    IF mongoUri THEN SortDesc(DriverColl, "lastSeen") ELSE MapValues(drivers)

\* GET /api/locations/:deviceId, lines 99-116
ApiLocationsDevice(deviceId) ==
    IF mongoUri
    THEN Take(SortDesc(FilterDevice(LocationColl, deviceId),
                       "timestamp"), FindLimit)
    ELSE FilterDevice(locations, deviceId)

\* lines 123-136: $sort {deviceId, timestamp: -1}, $group by deviceId taking $first
AggregateLatest(coll) ==
    LET ids == DistinctIds(coll, {})
    IN  [i \in 1..Len(ids) |->
            Head(SortDesc(FilterDevice(coll, ids[i]), "timestamp"))]

\* lines 140-146: drivers.forEach, the last of the driver's locations
RECURSIVE RecentLocationsOldest(_, _)
RecentLocationsOldest(drvs, locs) ==
    IF drvs = << >> THEN << >>
    ELSE LET driverLocations == FilterDevice(locs, Head(drvs).key)
         IN  (IF Len(driverLocations) > 0
              THEN << driverLocations[1] >>
              ELSE << >>) \o RecentLocationsOldest(Tail(drvs), locs)

RECURSIVE RecentLocations(_, _)
RecentLocations(drvs, locs) ==
    IF drvs = << >> THEN << >>
    ELSE LET driverLocations == FilterDevice(locs, Head(drvs).key)
         IN  (IF Len(driverLocations) > 0
              THEN << driverLocations[Len(driverLocations)] >>
              ELSE << >>) \o RecentLocations(Tail(drvs), locs)

\* GET /api/locations, lines 119-153
ApiLocations ==
    IF mongoUri THEN AggregateLatest(LocationColl) ELSE RecentLocations(drivers, locations)

(***************************************************************************)
(* Time passes.                                                            *)
(***************************************************************************)
Tick ==
    /\ now < MaxNow
    /\ now' = now + 1
    /\ UNCHANGED << mongoUri, nextSweep, lastActivity, drivers, locations, sockDevice,
                    activeConnections,
                    DriverColl, LocationColl, sockOpen, tasks, locationEmits, driversEmits, sockEmits,
                    nEvents, sent >>

(***************************************************************************)
(* server.js as a whole.                                                   *)
(***************************************************************************)
InitCommon ==
    /\ drivers = << >>
    /\ locations = << >>
    /\ sockDevice = [s \in Sockets |-> None]
    /\ activeConnections = << >>
    /\ DriverColl = << >>
    /\ LocationColl = << >>
    /\ sockOpen = [s \in Sockets |-> TRUE]
    /\ tasks = EmptyBag
    /\ now = 0
    /\ locationEmits = << >>
    /\ driversEmits = [count |-> 0, last |-> << >>]
    /\ sockEmits = [s \in Sockets |-> << >>]
    /\ nEvents = 0
    /\ sent = << >>
    /\ nextSweep = CleanupIntervalMs
    /\ lastActivity = [d \in Devices |-> NoTime]

Init ==
    /\ mongoUri \in BOOLEAN
    /\ InitCommon

\* the clients send at most EventBudget events; the handlers in flight go on
Next ==
    \/ /\ nEvents < EventBudget
       /\ \E s \in Sockets, d \in Devices, n \in Names : RegisterDriver(s, d, n)
    \/ \E t \in BagToSet(tasks), ok \in BOOLEAN : RegisterUpsert(t, ok)
    \/ \E t \in BagToSet(tasks) : RegisterResume(t)
    \/ /\ nEvents < EventBudget
       /\ \E s \in Sockets : \E p \in Payloads : LocationUpdate(s, p)
    \/ \E t \in BagToSet(tasks), ok \in BOOLEAN : LocationSave(t, ok)
    \/ \E t \in BagToSet(tasks), ok \in BOOLEAN : LocationTouch(t, ok)
    \/ \E t \in BagToSet(tasks) : LocationResume(t)
    \/ /\ nEvents < EventBudget
       /\ \E s \in Sockets : Disconnect(s)
    \/ \E t \in BagToSet(tasks), ok \in BOOLEAN : DisconnectUpdate(t, ok)
    \/ \E t \in BagToSet(tasks) : DisconnectResume(t)
    \/ Tick

Spec == Init /\ [][Next]_vars

\* server.js started without MONGODB_URI: every handler runs to its end at once
InitMemory ==
    /\ mongoUri = FALSE
    /\ InitCommon

NextMemory ==
    \/ /\ nEvents < MaxMemoryEvents
       /\ \E s \in Sockets, d \in Devices, n \in Names : RegisterDriver(s, d, n)
    \/ /\ nEvents < MaxMemoryEvents
       /\ \E s \in Sockets : \E p \in Payloads : LocationUpdate(s, p)
    \/ /\ nEvents < MaxMemoryEvents
       /\ \E s \in Sockets : Disconnect(s)
    \/ Tick

SpecMemory == InitMemory /\ [][NextMemory]_vars

(***************************************************************************)
(* server.js in memory-only mode with the history of d1 one short of the   *)
(* cap: d1 registered on s1 and d2 on s2, d2 sent one sample and d1 then   *)
(* sent HistoryCap - 1 samples, all within the first millisecond.          *)
(***************************************************************************)
FilledPayload(k) ==
    [deviceId |-> IF k = 3 THEN "d2" ELSE "d1", driverName |-> "Alice",
     latitude |-> 90, longitude |-> 0 - 180, accuracy |-> k,
     timestamp |-> ToISOString(ClientSkew)]

FilledLocation(k) ==
    Merge(FilledPayload(k), [timestamp |-> ToISOString(0), isOnline |-> TRUE])

FilledDriver(d, s) ==
    [key |-> d, value |-> [deviceId |-> d, driverName |-> "Alice", isOnline |-> TRUE,
                           lastSeen |-> ToISOString(0), socketId |-> s]]

InitCap ==
    /\ mongoUri = FALSE
    /\ drivers = << FilledDriver("d1", "s1"), FilledDriver("d2", "s2") >>
    /\ locations = [k \in 1..HistoryCap |-> FilledLocation(k + 2)]
    /\ sockDevice = [s \in Sockets |-> IF s = "s1" THEN "d1" ELSE "d2"]
    /\ activeConnections = << >>
    /\ DriverColl = << >>
    /\ LocationColl = << >>
    /\ sockOpen = [s \in Sockets |-> TRUE]
    /\ tasks = EmptyBag
    /\ now = 0
    /\ locationEmits = locations
    /\ driversEmits = [count |-> 2, last |-> MapValues(drivers)]
    /\ sockEmits = [s \in Sockets |-> << >>]
    /\ nEvents = HistoryCap + 2
    /\ sent = [k \in 1..HistoryCap |-> FilledPayload(k + 2)]
    /\ nextSweep = CleanupIntervalMs
    /\ lastActivity = [d \in Devices |-> NoTime]

NextCap ==
    \/ /\ nEvents < HistoryCap + 2 + MaxCapEvents
       /\ \E s \in Sockets, d \in Devices, n \in Names : RegisterDriver(s, d, n)
    \/ /\ nEvents < HistoryCap + 2 + MaxCapEvents
       /\ \E s \in Sockets : \E p \in Payloads : LocationUpdate(s, p)
    \/ /\ nEvents < HistoryCap + 2 + MaxCapEvents
       /\ \E s \in Sockets : Disconnect(s)
    \/ Tick

SpecCap == InitCap /\ [][NextCap]_vars

(***************************************************************************)
(* part_001: the durable-only server.                                      *)
(***************************************************************************)
legacyFrame == << mongoUri, drivers, locations, sockDevice >>

SockEmit(s, event, data) ==
    [sockEmits EXCEPT ![s] = Append(@, [event |-> event, data |-> data])]

\* lines 82-105: defaults of driverSchema
LegacyDriverDefaults == [isActive |-> TRUE, lastSeen |-> now, currentLocation |-> << >>]

\* lines 38-77: locationSchema requires deviceId, latitude and longitude
LegacyLocationValidate(doc) ==
    /\ doc.deviceId # None
    /\ doc.latitude \in Int
    /\ doc.longitude \in Int

\* lines 199-204 and 249-254: {...locationData, deviceId, timestamp, isOnline}
LegacyLocationDocPayloadId(p, deviceId, isOnline) ==
    [deviceId |-> p.deviceId, driverName |-> p.driverName,
     latitude |-> p.latitude, longitude |-> p.longitude,
     accuracy |-> p.accuracy, timestamp |-> ParseDate(p.timestamp),
     isOnline |-> isOnline]

LegacyLocationDoc(p, deviceId, isOnline) ==
    [deviceId |-> deviceId, driverName |-> p.driverName,
     latitude |-> p.latitude, longitude |-> p.longitude,
     accuracy |-> p.accuracy, timestamp |-> ParseDate(p.timestamp),
     isOnline |-> isOnline]

\* lines 224-229 and 269-274: the broadcast location event
LegacyLocationEvent(p, t) ==
    Merge(p, [deviceId |-> t.deviceId, driverName |-> t.driverName, socketId |-> t.sock])

\* Driver.updateMany({lastSeen: {$lt: cutoff}}, {isActive: false}), lines 314-317
UpdateManyFresh(coll, cutoff) ==
    [i \in 1..Len(coll) |->
        IF coll[i].lastSeen > cutoff THEN Merge(coll[i], [isActive |-> FALSE]) ELSE coll[i]]

UpdateManyStale(coll, cutoff) ==
    [i \in 1..Len(coll) |->
        IF coll[i].lastSeen < cutoff THEN Merge(coll[i], [isActive |-> FALSE]) ELSE coll[i]]

\* socket.on('registerDriver'), lines 157-185
LegacyRegisterDriver(s, d, n) ==
    /\ sockOpen[s]
    /\ InFlight < MaxInflight
    /\ nEvents' = nEvents + 1
    /\ lastActivity' = [lastActivity EXCEPT ![d] = now]
    /\ tasks' = TaskStart([kind |-> "registerDriver", pc |-> "upsert", sock |-> s,
                           deviceId |-> d, driverName |-> n, lastSeen |-> now])
    /\ UNCHANGED << legacyFrame, activeConnections, DriverColl, LocationColl, sockOpen,
                    now, locationEmits, driversEmits, sockEmits, sent, nextSweep >>

\* lines 162-170, and the catch of lines 181-184
LegacyRegisterUpsert(t, ok) ==
    /\ BagIn(t, tasks)
    /\ t.kind = "registerDriver" /\ t.pc = "upsert"
    /\ IF ok
       THEN /\ DriverColl' = FindOneAndUpdate(DriverColl, t.deviceId,
                                 [driverName |-> t.driverName, isActive |-> TRUE,
                                  lastSeen |-> t.lastSeen], TRUE, LegacyDriverDefaults)
            /\ tasks' = TaskMove(t, [t EXCEPT !.pc = "bind"])
            /\ UNCHANGED sockEmits
       ELSE /\ sockEmits' = SockEmit(t.sock, "error", "Failed to register driver")
            /\ tasks' = TaskEnd(t)
            /\ UNCHANGED DriverColl
    /\ UNCHANGED << legacyFrame, lastActivity, activeConnections, LocationColl, sockOpen, now,
                    locationEmits, driversEmits, nEvents, sent, nextSweep >>

\* line 173, then the find of line 178 is issued
LegacyRegisterBind(t) ==
    /\ BagIn(t, tasks)
    /\ t.kind = "registerDriver" /\ t.pc = "bind"
    /\ activeConnections' = MapSet(activeConnections, t.sock,
                                   [deviceId |-> t.deviceId, driverName |-> t.driverName])
    /\ tasks' = TaskMove(t, [t EXCEPT !.pc = "find"])
    /\ UNCHANGED << legacyFrame, lastActivity, DriverColl, LocationColl, sockOpen, now,
                    locationEmits,
                    driversEmits, sockEmits, nEvents, sent, nextSweep >>

\* lines 178-179: Driver.find({isActive: true}) and io.emit('driversUpdate')
LegacyRegisterFind(t, ok) ==
    /\ BagIn(t, tasks)
    /\ t.kind = "registerDriver" /\ t.pc = "find"
    /\ IF ok
       THEN /\ driversEmits' = EmitDrivers(SelectSeq(DriverColl, LAMBDA doc : doc.isActive))
            /\ UNCHANGED sockEmits
       ELSE /\ sockEmits' = SockEmit(t.sock, "error", "Failed to register driver")
            /\ UNCHANGED driversEmits
    /\ tasks' = TaskEnd(t)
    /\ UNCHANGED << legacyFrame, lastActivity, activeConnections, DriverColl,
                    LocationColl, sockOpen,
                    now, locationEmits, nEvents, sent, nextSweep >>

\* a sendLocation payload: README.md gives latitude, longitude, accuracy and
\* timestamp; this client adds a deviceId and a driverName of its own
LegacyPayloads ==
    { [deviceId |-> "d2", driverName |-> "Alice", latitude |-> c[1], longitude |-> c[2],
       accuracy |-> nEvents + 1, timestamp |-> ToISOString(now + ClientSkew)] :
         c \in LegacyCoords }

\* socket.on('sendLocation'), lines 188-235
LegacySendLocation(s, p) ==
    /\ sockOpen[s]
    /\ InFlight < MaxInflight
    /\ nEvents' = nEvents + 1
    /\ lastActivity' = IF MapHas(activeConnections, s)
                       THEN [lastActivity EXCEPT ![MapGet(activeConnections, s).deviceId] = now]
                       ELSE lastActivity
    /\ sent' = Append(sent, p)
    /\ IF ~MapHas(activeConnections, s)
       THEN /\ sockEmits' = SockEmit(s, "error", "Driver not registered")
            /\ UNCHANGED tasks
       ELSE /\ tasks' = TaskStart([kind |-> "sendLocation", pc |-> "save", sock |-> s,
                                   deviceId |-> MapGet(activeConnections, s).deviceId,
                                   driverName |-> MapGet(activeConnections, s).driverName,
                                   data |-> p, lastSeen |-> NoTime])
            /\ UNCHANGED sockEmits
    /\ UNCHANGED << legacyFrame, activeConnections, DriverColl, LocationColl, sockOpen,
                    now, locationEmits, driversEmits, nextSweep >>

\* line 206: await location.save()
LegacyLocationSave(t, ok) ==
    /\ BagIn(t, tasks)
    /\ t.kind = "sendLocation" /\ t.pc = "save"
    /\ IF ok /\ LegacyLocationValidate(LegacyLocationDoc(t.data, t.deviceId, TRUE))
       THEN /\ LocationColl' = Append(LocationColl,
                                      LegacyLocationDoc(t.data, t.deviceId, TRUE))
            /\ tasks' = TaskMove(t, [t EXCEPT !.pc = "touch", !.lastSeen = now])
            /\ UNCHANGED sockEmits
       ELSE /\ sockEmits' = SockEmit(t.sock, "error", "Failed to save location")
            /\ tasks' = TaskEnd(t)
            /\ UNCHANGED LocationColl
    /\ UNCHANGED << legacyFrame, lastActivity, activeConnections, DriverColl, sockOpen, now,
                    locationEmits, driversEmits, nEvents, sent, nextSweep >>

\* lines 209-219: currentLocation and lastSeen of the driver
LegacyLocationTouch(t, ok) ==
    /\ BagIn(t, tasks)
    /\ t.kind = "sendLocation" /\ t.pc = "touch"
    /\ IF ok
       THEN /\ DriverColl' = FindOneAndUpdate(DriverColl, t.deviceId,
                                 [currentLocation |->
                                     << [latitude |-> t.data.latitude,
                                         longitude |-> t.data.longitude,
                                         timestamp |-> t.lastSeen] >>,
                                  lastSeen |-> t.lastSeen], FALSE, LegacyDriverDefaults)
            /\ tasks' = TaskMove(t, [t EXCEPT !.pc = "emit"])
            /\ UNCHANGED sockEmits
       ELSE /\ sockEmits' = SockEmit(t.sock, "error", "Failed to save location")
            /\ tasks' = TaskEnd(t)
            /\ UNCHANGED DriverColl
    /\ UNCHANGED << legacyFrame, lastActivity, activeConnections, LocationColl, sockOpen, now,
                    locationEmits, driversEmits, nEvents, sent, nextSweep >>

\* lines 224-229: io.emit('locationUpdate')
LegacyLocationEmit(t) ==
    /\ BagIn(t, tasks)
    /\ t.kind = "sendLocation" /\ t.pc = "emit"
    /\ locationEmits' = Append(locationEmits, LegacyLocationEvent(t.data, t))
    /\ tasks' = TaskEnd(t)
    /\ UNCHANGED << legacyFrame, lastActivity, activeConnections, DriverColl,
                    LocationColl, sockOpen,
                    now, driversEmits, sockEmits, nEvents, sent, nextSweep >>

\* a batch of n buffered samples, captured one ms apart
SyncBatch(n) ==
    [k \in 1..n |->
        [deviceId |-> "d1", driverName |-> "Alice", latitude |-> 90,
         longitude |-> 0 - 180, accuracy |-> nEvents + k, timestamp |-> ToISOString(k)]]

\* socket.on('syncLocations'), lines 238-281
LegacySyncLocations(s, locationsArray) ==
    /\ sockOpen[s]
    /\ InFlight < MaxInflight
    /\ nEvents' = nEvents + 1
    /\ lastActivity' = IF MapHas(activeConnections, s)
                       THEN [lastActivity EXCEPT ![MapGet(activeConnections, s).deviceId] = now]
                       ELSE lastActivity
    /\ sent' = sent \o locationsArray
    /\ IF ~MapHas(activeConnections, s)
       THEN /\ sockEmits' = SockEmit(s, "error", "Driver not registered")
            /\ UNCHANGED tasks
       ELSE /\ tasks' = TaskStart([kind |-> "syncLocations", pc |-> "insert", sock |-> s,
                                   deviceId |-> MapGet(activeConnections, s).deviceId,
                                   driverName |-> MapGet(activeConnections, s).driverName,
                                   data |-> locationsArray])
            /\ UNCHANGED sockEmits
    /\ UNCHANGED << legacyFrame, activeConnections, DriverColl, LocationColl, sockOpen,
                    now, locationEmits, driversEmits, nextSweep >>

\* lines 249-256: Location.insertMany(locationDocs)
LegacySyncInsert(t, ok) ==
    /\ BagIn(t, tasks)
    /\ t.kind = "syncLocations" /\ t.pc = "insert"
    /\ LET locationDocs == [k \in 1..Len(t.data) |->
                               LegacyLocationDoc(t.data[k], t.deviceId, FALSE)]
       IN  IF ok /\ \A k \in 1..Len(locationDocs) : LegacyLocationValidate(locationDocs[k])
           THEN /\ LocationColl' = LocationColl \o locationDocs
                /\ tasks' = TaskMove(t, [t EXCEPT !.pc = "done"])
                /\ UNCHANGED sockEmits
           ELSE /\ sockEmits' = SockEmit(t.sock, "syncError",
                                         "Failed to sync offline locations")
                /\ tasks' = TaskEnd(t)
                /\ UNCHANGED LocationColl
    /\ UNCHANGED << legacyFrame, lastActivity, activeConnections, DriverColl, sockOpen, now,
                    locationEmits, driversEmits, nEvents, sent, nextSweep >>

\* lines 261-275: syncComplete to the sender, the latest sample to everyone
LegacySyncResume(t) ==
    /\ BagIn(t, tasks)
    /\ t.kind = "syncLocations" /\ t.pc = "done"
    /\ sockEmits' = SockEmit(t.sock, "syncComplete", Len(t.data))
    /\ locationEmits' = IF Len(t.data) > 0
                        THEN Append(locationEmits,
                                    LegacyLocationEvent(t.data[Len(t.data)], t))
                        ELSE locationEmits
    /\ tasks' = TaskEnd(t)
    /\ UNCHANGED << legacyFrame, lastActivity, activeConnections, DriverColl,
                    LocationColl, sockOpen,
                    now, driversEmits, nEvents, sent, nextSweep >>

\* socket.on('disconnect'), lines 284-302
LegacyDisconnect(s) ==
    /\ sockOpen[s]
    /\ InFlight < MaxInflight
    /\ nEvents' = nEvents + 1
    /\ sockOpen' = [sockOpen EXCEPT ![s] = FALSE]
    /\ tasks' = IF MapHas(activeConnections, s)
                THEN TaskStart([kind |-> "disconnect", pc |-> "update", sock |-> s,
                                deviceId |-> MapGet(activeConnections, s).deviceId,
                                lastSeen |-> now])
                ELSE tasks
    /\ UNCHANGED << legacyFrame, lastActivity, activeConnections, DriverColl, LocationColl, now,
                    locationEmits, driversEmits, sockEmits, sent, nextSweep >>

\* lines 291-298: the update of lastSeen; a failure is only logged
LegacyDisconnectUpdate(t, ok) ==
    /\ BagIn(t, tasks)
    /\ t.kind = "disconnect" /\ t.pc = "update"
    /\ DriverColl' = IF ok
                     THEN FindOneAndUpdate(DriverColl, t.deviceId,
                              [lastSeen |-> t.lastSeen], FALSE, LegacyDriverDefaults)
                     ELSE DriverColl
    /\ tasks' = TaskMove(t, [t EXCEPT !.pc = "unbind"])
    /\ UNCHANGED << legacyFrame, lastActivity, activeConnections, LocationColl, sockOpen, now,
                    locationEmits, driversEmits, sockEmits, nEvents, sent, nextSweep >>

\* line 300: activeConnections.delete(socket.id)
LegacyDisconnectUnbind(t) ==
    /\ BagIn(t, tasks)
    /\ t.kind = "disconnect" /\ t.pc = "unbind"
    /\ activeConnections' = MapDelete(activeConnections, t.sock)
    /\ tasks' = TaskEnd(t)
    /\ UNCHANGED << legacyFrame, lastActivity, DriverColl, LocationColl, sockOpen, now,
                    locationEmits,
                    driversEmits, sockEmits, nEvents, sent, nextSweep >>

\* setInterval(..., 5 * 60 * 1000), lines 311-321: the timer fires
LegacyCleanupFire ==
    /\ now >= nextSweep
    /\ InFlight < MaxInflight
    /\ nextSweep' = nextSweep + CleanupIntervalMs
    /\ tasks' = TaskStart([kind |-> "cleanup", pc |-> "update",
                           fiveMinutesAgo |-> now - StaleMs])
    /\ UNCHANGED << legacyFrame, lastActivity, activeConnections, DriverColl,
                    LocationColl, sockOpen,
                    now, locationEmits, driversEmits, sockEmits, nEvents, sent >>

\* lines 314-317: await Driver.updateMany(...); a failure is only logged
LegacyCleanupUpdate(t, ok) ==
    /\ BagIn(t, tasks)
    /\ t.kind = "cleanup" /\ t.pc = "update"
    /\ DriverColl' = IF ok THEN UpdateManyStale(DriverColl, t.fiveMinutesAgo)
                     ELSE DriverColl
    /\ tasks' = TaskEnd(t)
    /\ UNCHANGED << legacyFrame, lastActivity, activeConnections, LocationColl, sockOpen, now,
                    locationEmits, driversEmits, sockEmits, nEvents, sent, nextSweep >>

LegacyTick(dt) ==
    /\ now' = now + dt
    /\ UNCHANGED << legacyFrame, lastActivity, activeConnections, DriverColl,
                    LocationColl, sockOpen,
                    tasks, locationEmits, driversEmits, sockEmits, nEvents, sent,
                    nextSweep >>

\* GET /api/drivers, lines 125-132
LegacyApiDrivers ==
    SortDesc(SelectSeq(DriverColl, LAMBDA doc : doc.isActive), "lastSeen")

\* GET /api/locations/:deviceId, lines 135-150
LegacyApiLocationsDevice(deviceId, hours) ==
    SortDesc(SelectSeq(LocationColl,
                    LAMBDA loc : /\ loc.deviceId = deviceId
                                 /\ loc.timestamp >= now - hours * 60 * 60 * 1000),
             "timestamp")

InitLegacy ==
    /\ mongoUri = TRUE
    /\ InitCommon

NextLegacy ==
    \/ /\ nEvents < MaxLegacyEvents
       /\ \E s \in Sockets, d \in Devices, n \in Names : LegacyRegisterDriver(s, d, n)
    \/ \E t \in BagToSet(tasks), ok \in BOOLEAN : LegacyRegisterUpsert(t, ok)
    \/ \E t \in BagToSet(tasks) : LegacyRegisterBind(t)
    \/ \E t \in BagToSet(tasks), ok \in BOOLEAN : LegacyRegisterFind(t, ok)
    \/ /\ nEvents < MaxLegacyEvents
       /\ \E s \in Sockets : \E p \in LegacyPayloads : LegacySendLocation(s, p)
    \/ \E t \in BagToSet(tasks), ok \in BOOLEAN : LegacyLocationSave(t, ok)
    \/ \E t \in BagToSet(tasks), ok \in BOOLEAN : LegacyLocationTouch(t, ok)
    \/ \E t \in BagToSet(tasks) : LegacyLocationEmit(t)
    \/ /\ nEvents < MaxLegacyEvents
       /\ \E s \in Sockets, n \in 0..MaxBatch : LegacySyncLocations(s, SyncBatch(n))
    \/ \E t \in BagToSet(tasks), ok \in BOOLEAN : LegacySyncInsert(t, ok)
    \/ \E t \in BagToSet(tasks) : LegacySyncResume(t)
    \/ /\ nEvents < MaxLegacyEvents
       /\ \E s \in Sockets : LegacyDisconnect(s)
    \/ \E t \in BagToSet(tasks), ok \in BOOLEAN : LegacyDisconnectUpdate(t, ok)
    \/ \E t \in BagToSet(tasks) : LegacyDisconnectUnbind(t)
    \/ nextSweep <= MaxSweeps * CleanupIntervalMs /\ LegacyCleanupFire
    \/ \E t \in BagToSet(tasks), ok \in BOOLEAN : LegacyCleanupUpdate(t, ok)
    \/ now % CleanupIntervalMs < MaxNow /\ LegacyTick(1)
    \/ now + CleanupIntervalMs <= MaxSweeps * CleanupIntervalMs + MaxNow
          /\ LegacyTick(CleanupIntervalMs)

SpecLegacy == InitLegacy /\ [][NextLegacy]_vars

(***************************************************************************)
(* Properties.                                                             *)
(***************************************************************************)
InRange(loc) ==
    /\ loc.latitude >= LatMin /\ loc.latitude <= LatMax
    /\ loc.longitude >= LonMin /\ loc.longitude <= LonMax

OutOfRange(loc) == ~InRange(loc)

SeqToSet(s) == { s[i] : i \in 1..Len(s) }

DriverOnline(d) == MapHas(drivers, d) /\ MapGet(drivers, d).isOnline

Quiet == InFlight = 0

\* C1: a location sample submitted on a connection with no binding (it never
\* registered a driver) is rejected: an error is emitted to that connection, and
\* the sample reaches neither the history nor the handler's durable write.
C1_UnregisteredSampleRejected ==
    [][\A s \in Sockets : \A p \in Payloads :
          (LocationUpdate(s, p) /\ sockDevice[s] = None)
             => /\ locations' = locations
                /\ tasks' = tasks
                /\ sockEmits'[s] # sockEmits[s]]_vars

\* C2: in both modes every sample in the history buffer and every document of
\* the durable location store has its latitude in [-90, 90] and its longitude in
\* [-180, 180].
C2_StoredSamplesInRange ==
    /\ \A i \in 1..Len(locations) : InRange(locations[i])
    /\ \A i \in 1..Len(LocationColl) : InRange(LocationColl[i])

\* C4: no step takes a driver's online flag from true to false (server.js has
\* no staleness sweeper, so a disconnect would be the only step that could).
C4_DisconnectKeepsOnline ==
    [][\A d \in Devices : DriverOnline(d) => DriverOnline(d)']_vars

SentBy(d) == FilterDevice(sent, d)

History == IF mongoUri THEN LocationColl ELSE locations

HistoryOf(d) == FilterDevice(History, d)

\* the capture time of a stored sample, in ms
TimeOf(loc) == IF mongoUri THEN loc.timestamp ELSE ParseDate(loc.timestamp)

SamePayload(loc, p) ==
    /\ loc.deviceId = p.deviceId
    /\ loc.driverName = p.driverName
    /\ loc.latitude = p.latitude
    /\ loc.longitude = p.longitude
    /\ loc.accuracy = p.accuracy

StrictlyIncreasingTimes(s) ==
    \A i, j \in 1..Len(s) : i < j => ParseDate(s[i].timestamp) < ParseDate(s[j].timestamp)

\* C6: once device d has registered and sent k <= 100 samples with increasing
\* timestamps (and no handler is in flight) the history query for d returns
\* exactly those k samples, newest first, each with the submitted field values,
\* timestamp included.
C6_HistoryNewestFirstAsSubmitted ==
    \A d \in Devices :
        (Quiet /\ MapHas(drivers, d) /\ Len(SentBy(d)) <= HistoryCap
               /\ StrictlyIncreasingTimes(SentBy(d)))
        => LET h == ApiLocationsDevice(d)
               s == SentBy(d)
           IN  /\ Len(h) = Len(s)
               /\ \A i \in 1..Len(h) :
                     /\ SamePayload(h[i], s[Len(s) + 1 - i])
                     /\ TimeOf(h[i]) = ParseDate(s[Len(s) + 1 - i].timestamp)

\* C7: the fleet-wide query returns exactly one record for every deviceId with a
\* sample in the history, driver record or not, and it is a sample of that
\* device with the maximum timestamp.
C7_LatestForEveryReportingDevice ==
    \A d \in Devices :
        Len(HistoryOf(d)) > 0
        => LET r == ApiLocations
           IN  /\ Cardinality({ i \in 1..Len(r) : r[i].deviceId = d }) = 1
               /\ \A i \in 1..Len(r) : r[i].deviceId = d
                     => \A j \in 1..Len(HistoryOf(d)) :
                           TimeOf(r[i]) >= TimeOf(HistoryOf(d)[j])

\* C10: in durable mode, when a durable write for a valid sample fails, the
\* sample is still appended to the history, the driver is still touched and the
\* location event is still broadcast.
C10_DurableFailureKeepsMemoryPath ==
    [][\A t \in BagToSet(tasks) :
          (/\ t.kind = "location"
           /\ LocationValidate(LocationDoc(t.location))
           /\ LocationSave(t, FALSE) \/ LocationTouch(t, FALSE))
          => /\ t.location \in SeqToSet(locations')
             /\ t.location \in SeqToSet(locationEmits')
             /\ MapHas(drivers, t.deviceId)
                   => /\ DriverOnline(t.deviceId)'
                      /\ MapGet(drivers', t.deviceId).lastSeen = ToISOString(now)]_vars

Last(s) == s[Len(s)]

\* C8: in memory-only mode, once both devices have registered and each has sent
\* at least one sample, the fleet-wide query returns exactly two entries, one
\* per device, each the record of the sample that device submitted last.
C8_FleetLatestOnePerDevice ==
    (~mongoUri /\ \A d \in Devices : MapHas(drivers, d) /\ Len(SentBy(d)) > 0)
    => LET r == ApiLocations
       IN  /\ Len(r) = Cardinality(Devices)
           /\ \A d \in Devices :
                 \E i \in 1..Len(r) : SamePayload(r[i], Last(SentBy(d)))

\* both devices registered, both reported, one of them more than once
C8_Witness ==
    /\ ~mongoUri
    /\ \A d \in Devices : MapHas(drivers, d) /\ Len(SentBy(d)) > 0
    /\ \E d \in Devices : Len(SentBy(d)) > 1
    /\ Len(ApiLocations) = Cardinality(Devices)

UniqueDriverRecords ==
    /\ \A i, j \in 1..Len(drivers) : drivers[i].key = drivers[j].key => i = j
    /\ \A i, j \in 1..Len(DriverColl) :
          DriverColl[i].deviceId = DriverColl[j].deviceId => i = j

\* the step in which a registration of device d takes effect in memory
RegistrationLands(d) ==
    \/ ~mongoUri /\ \E s \in Sockets, n \in Names : RegisterDriver(s, d, n)
    \/ \E t \in BagToSet(tasks) : t.deviceId = d /\ RegisterResume(t)

\* C9: no sequence of registrations leaves two driver records with the same
\* deviceId, in memory or in the durable store, and when a registration of a
\* device takes effect - the first or a repeated one, on the same or on another
\* connection - the one record of that device is online.
C9_RegisterIdempotent ==
    [][/\ UniqueDriverRecords'
       /\ \A d \in Devices :
             RegistrationLands(d)
             => /\ Cardinality({ i \in 1..Len(drivers') : drivers'[i].key = d }) = 1
                /\ DriverOnline(d)'
                /\ mongoUri => Cardinality({ i \in 1..Len(DriverColl') :
                                               DriverColl'[i].deviceId = d }) = 1]_vars

\* the same device has been registered twice, the second time on another
\* connection, and nothing else has touched the driver list
C9_Witness ==
    /\ driversEmits.count = 2
    /\ \A s \in Sockets : sockOpen[s] /\ sockDevice[s] = "d1"
    /\ Len(drivers) = 1
    /\ DriverOnline("d1")

\* the samples of device d the server accepted, in order of acceptance
AcceptedOf(d) == FilterDevice(locationEmits, d)

\* C3: the in-memory history never holds more than 100 samples of one deviceId,
\* and once a device has had 101 samples accepted its first one is no longer in
\* the buffer.
C3_HistoryCapped ==
    \A d \in Devices :
        /\ Len(FilterDevice(locations, d)) <= HistoryCap
        /\ Len(AcceptedOf(d)) > HistoryCap
              => AcceptedOf(d)[1] \notin SeqToSet(locations)

\* d1 has had its 101st sample accepted, with a sample of d2 ahead of d1's in
\* the buffer
C3_Witness ==
    /\ Len(AcceptedOf("d1")) = HistoryCap + 1
    /\ Len(FilterDevice(locations, "d1")) = HistoryCap
    /\ locations[1].deviceId = "d2"

DocOf(coll, d) == coll[FirstDoc(coll, d)]

Listed(list, d) == \E i \in 1..Len(list) : list[i].deviceId = d

C11_WriteFailureNotSurfaced ==
    [][\A t \in BagToSet(tasks) :
          (/\ t.kind = "sendLocation"
           /\ LegacyLocationValidate(LegacyLocationDoc(t.data, t.deviceId, TRUE))
           /\ LegacyLocationSave(t, FALSE) \/ LegacyLocationTouch(t, FALSE))
          => sockEmits'[t.sock] = sockEmits[t.sock]]_vars

\* C12: when the touch of an accepted sample is applied, the driver record of
\* its device has lastSeen refreshed and is online, also when the cleanup timer
\* had marked it inactive before (part_001, sendLocation).
C12_AcceptedSampleTouchesDriver ==
    [][\A t \in BagToSet(tasks) :
          (/\ t.kind = "sendLocation"
           /\ LegacyLocationTouch(t, TRUE)
           /\ HasDoc(DriverColl, t.deviceId))
          => /\ DocOf(DriverColl', t.deviceId).lastSeen = t.lastSeen
             /\ DocOf(DriverColl', t.deviceId).isActive]_vars

\* C13: when a bulk sync from a registered connection completes, the driver
\* record of the bound device is online and its lastSeen is the time of the sync.
C13_SyncUpdatesPresence ==
    [][\A t \in BagToSet(tasks) :
          (/\ t.kind = "syncLocations"
           /\ Len(t.data) > 0
           /\ LegacySyncResume(t)
           /\ HasDoc(DriverColl, t.deviceId))
          => /\ DocOf(DriverColl', t.deviceId).isActive
             /\ DocOf(DriverColl', t.deviceId).lastSeen >= lastActivity[t.deviceId]]_vars

\* C14: a cleanup tick that takes at least one driver record from active to
\* inactive broadcasts the driver list, and a tick that changes no record
\* broadcasts none.
C14_SweepBroadcastsChanges ==
    [][\A t \in BagToSet(tasks) : \A ok \in BOOLEAN :
          (t.kind = "cleanup" /\ LegacyCleanupUpdate(t, ok))
          => IF \E i \in 1..Len(DriverColl) : DriverColl[i].isActive /\ ~DriverColl'[i].isActive
             THEN driversEmits'.count = driversEmits.count + 1
             ELSE driversEmits' = driversEmits]_vars

\* the clients number their samples in `accuracy`: the order of submission
InSubmissionOrder(s) == \A i, j \in 1..Len(s) : i < j => s[i].accuracy < s[j].accuracy

\* C15: for every device the location events are broadcast in the order in
\* which its samples were submitted, and its samples are in that order in the
\* in-memory history, whatever the interleaving of the handlers.
C15_PerDeviceFifo ==
    \A d \in Devices :
        /\ InSubmissionOrder(AcceptedOf(d))
        /\ InSubmissionOrder(FilterDevice(locations, d))

\* C16: a bulk sync from a connection without a binding records nothing; one
\* from a bound connection runs under the bound deviceId and, when its insert
\* is applied, adds its n samples in the submitted order, each under that
\* deviceId and with isOnline false; the handler then confirms count n to the
\* submitting connection.
C16_SyncRecordsBatch ==
    [][/\ \A s \in Sockets : \A n \in 0..MaxBatch :
             LegacySyncLocations(s, SyncBatch(n))
             => IF MapHas(activeConnections, s)
                THEN \E t \in BagToSet(tasks') :
                        /\ t.kind = "syncLocations" /\ t.sock = s
                        /\ t.deviceId = MapGet(activeConnections, s).deviceId
                        /\ t.data = SyncBatch(n)
                        /\ CopiesIn(t, tasks') = CopiesIn(t, tasks) + 1
                ELSE tasks' = tasks /\ LocationColl' = LocationColl
       /\ \A t \in BagToSet(tasks) :
             (t.kind = "syncLocations" /\ LegacySyncInsert(t, TRUE))
             => /\ Len(LocationColl') = Len(LocationColl) + Len(t.data)
                /\ SubSeq(LocationColl', 1, Len(LocationColl)) = LocationColl
                /\ \A k \in 1..Len(t.data) :
                      LET doc == LocationColl'[Len(LocationColl) + k]
                      IN  /\ doc.deviceId = t.deviceId
                          /\ doc.isOnline = FALSE
                          /\ doc.latitude = t.data[k].latitude
                          /\ doc.longitude = t.data[k].longitude
                          /\ doc.accuracy = t.data[k].accuracy
                          /\ doc.timestamp = ParseDate(t.data[k].timestamp)
       /\ \A t \in BagToSet(tasks) :
             (t.kind = "syncLocations" /\ LegacySyncResume(t))
             => Last(sockEmits'[t.sock]) = [event |-> "syncComplete", data |-> Len(t.data)]
      ]_vars

\* a connection bound to d2 has synced a full batch whose payloads name d1, and
\* has been told so
C16_Witness ==
    /\ Quiet
    /\ Len(LocationColl) = MaxBatch
    /\ \A k \in 1..Len(LocationColl) :
          LocationColl[k].deviceId = "d2" /\ ~LocationColl[k].isOnline
    /\ \E s \in Sockets :
          /\ sockEmits[s] # << >>
          /\ Last(sockEmits[s]) = [event |-> "syncComplete", data |-> MaxBatch]

\* C17: when device d is registered on connection b after connection a, and b is
\* still open, the disconnect of a leaves d online.
C17_OldConnectionDisconnectKeepsOnline ==
    [][\A a, b \in Sockets : \A d \in Devices :
          (/\ a # b
           /\ sockDevice[a] = d /\ sockDevice[b] = d /\ sockOpen[b]
           /\ DriverOnline(d) /\ MapGet(drivers, d).socketId = b
           /\ \/ Disconnect(a)
              \/ \E t \in BagToSet(tasks) :
                    t.kind = "disconnect" /\ t.sock = a /\ DisconnectResume(t))
          => DriverOnline(d)']_vars

\* C18: a location-update for device d leaves the samples of every other device
\* and their order as they were; when d already holds 100 samples it removes
\* d's oldest one and nothing else, and otherwise it removes nothing.
C18_EvictsOnlyOwnOldest ==
    [][\A s \in Sockets : \A p \in Payloads :
          (~mongoUri /\ LocationUpdate(s, p))
          => LET d == p.deviceId
                 old == FilterDevice(locations, d)
                 new == FilterDevice(locations', d)
             IN  /\ \A e \in Devices \ {d} :
                       FilterDevice(locations', e) = FilterDevice(locations, e)
                 /\ SamePayload(Last(locations'), p)
                 /\ IF Len(old) >= HistoryCap
                    THEN /\ Len(locations') = Len(locations)
                         /\ SubSeq(new, 1, Len(new) - 1) = Tail(old)
                    ELSE SubSeq(locations', 1, Len(locations)) = locations]_vars

\* d1 has evicted twice while the sample of d2 stayed at the head of the buffer
C18_Witness ==
    /\ Len(AcceptedOf("d1")) = HistoryCap + 2
    /\ Len(locations) = HistoryCap + 1
    /\ locations[1].deviceId = "d2"

LocationTasks(b) == { t \in BagToSet(b) : t.kind = "location" }

\* C19: no step of a disconnect handler removes or changes a location-update
\* handler in flight, and a location-update handler that resumes after its
\* writes when its connection has already disconnected still appends its sample
\* to the history and broadcasts it.
C19_DisconnectCancelsNoIngest ==
    [][/\ (\/ \E s \in Sockets : Disconnect(s)
           \/ \E u \in BagToSet(tasks), ok \in BOOLEAN :
                 u.kind = "disconnect" /\ (DisconnectUpdate(u, ok) \/ DisconnectResume(u)))
          => \A t \in LocationTasks(tasks) : CopiesIn(t, tasks') = CopiesIn(t, tasks)
       /\ \A t \in LocationTasks(tasks) :
             (LocationResume(t) /\ ~sockOpen[t.sock])
             => /\ Len(locationEmits') = Len(locationEmits) + 1
                /\ Last(locationEmits') = t.location
                /\ Len(locations') > 0
                /\ Last(locations') = t.location]_vars

\* the writes of a sample are done, and the connection that sent it, a
\* registered one, has meanwhile disconnected and its handler has run
C19_Witness ==
    \E t \in LocationTasks(tasks) :
        /\ t.pc = "mem"
        /\ ~sockOpen[t.sock]
        /\ sockDevice[t.sock] # None
        /\ MapHas(drivers, sockDevice[t.sock])
        /\ ~DriverOnline(sockDevice[t.sock])
        /\ \A u \in BagToSet(tasks) : u.kind # "disconnect"

\* C20: a location-update from a connection registered as device d records its
\* sample, in memory or through the handler it starts, under d and under no
\* other deviceId, and touches no other driver.
C20_SampleCarriesBoundDevice ==
    [][\A s \in Sockets : \A p \in Payloads :
          (LocationUpdate(s, p) /\ sockDevice[s] # None)
          => /\ \A e \in Devices \ {sockDevice[s]} :
                   /\ FilterDevice(locations', e) = FilterDevice(locations, e)
                   /\ MapHas(drivers, e) => MapGet(drivers', e) = MapGet(drivers, e)
             /\ \A t \in LocationTasks(tasks') :
                   CopiesIn(t, tasks') # CopiesIn(t, tasks) => t.deviceId = sockDevice[s]]_vars

\* C21: in durable mode, whenever no handler is in flight, the in-memory driver
\* map and the Driver collection agree on the online flag of every device that
\* has a record in both.
C21_MemoryAgreesWithStore ==
    (mongoUri /\ Quiet)
    => \A d \in Devices :
          (MapHas(drivers, d) /\ HasDoc(DriverColl, d))
          => MapGet(drivers, d).isOnline = DocOf(DriverColl, d).isOnline

====
